---- MODULE Spec2Model ----
(***************************************************************************)
(* MFT crawler (scripts/crawler.js): one crawl pass over the registered    *)
(* feeds, change detection against the stored snapshots, line diff, the    *)
(* bounded history and the end-of-run persistence; and the display layer   *)
(* (docs/app.js): the tag filters and the add-feed form.                   *)
(*                                                                         *)
(* Spec is the crawler on its schedule; DiffSpec applies the diff engine   *)
(* to pairs of texts; AddFeedSpec has the add-feed form beside a crawler   *)
(* run; TagSpec has the clicks on tag filters and card tags.               *)
(*                                                                         *)
(* Texts are strings.  JavaScript's null is the empty tuple None; a        *)
(* present value v is the one-element tuple Some(v).  The clock counts     *)
(* milliseconds; runs start on the hour, and the behaviours explored are   *)
(* the fastest ones, in which a run takes no time but its delays.          *)
(***************************************************************************)
EXTENDS Integers, Sequences, FiniteSets, TLC

\* ------------------------------------------------------------------ bounds

\* Number of sources in the registry (feeds.json).
NumFeeds == 2

\* Number of crawler invocations explored.
MaxRuns == 2

\* Number of loop iterations explored, over all invocations.
MaxSteps == 3

\* Number of file operations that fail, over all invocations.
MaxFaults == 1

\* Number of lines of the texts the diff engine is applied to.
MaxLines == 3

\* Number of "add source" requests submitted in the display layer.
MaxPending == 1

\* ---------------------------------------------------------- program constants

\* historyData.updates.slice(0, 100)
HistoryCap == 100

\* part.value.substring(0, 500)
MaxSegmentChars == 500

\* setTimeout(resolve, 1000)
DelayMs == 1000

\* The crawl workflow runs every hour.
RunPeriodMs == 3600000

\* ------------------------------------------------------------ option values

None == <<>>

Some(v) == <<v>>

\* ------------------------------------------------------------ string helpers

Char(s, i) == SubSeq(s, i, i)

Whitespace == {" ", "\n", "\t", "\r"}

RECURSIVE TrimStart(_)
TrimStart(s) ==
    IF Len(s) > 0 /\ Char(s, 1) \in Whitespace
    THEN TrimStart(SubSeq(s, 2, Len(s)))
    ELSE s

RECURSIVE TrimEnd(_)
TrimEnd(s) ==
    IF Len(s) > 0 /\ Char(s, Len(s)) \in Whitespace
    THEN TrimEnd(SubSeq(s, 1, Len(s) - 1))
    ELSE s

\* String.prototype.trim
Trim(s) == TrimEnd(TrimStart(s))

\* String.prototype.substring(0, n)
Substring0(s, n) == IF Len(s) <= n THEN s ELSE SubSeq(s, 1, n)

RECURSIVE Concat(_)
Concat(strs) == IF strs = <<>> THEN "" ELSE Head(strs) \o Concat(Tail(strs))

\* --------------------------------------------------------------- Diff.diffLines

\* The line tokens of a text: every line keeps its newline, the last line has
\* none when the text does not end in one; the empty text has no token.
RECURSIVE TokenizeFrom(_, _)
TokenizeFrom(s, start) ==
    IF start > Len(s) THEN <<>>
    ELSE LET ends == {i \in start..Len(s) : Char(s, i) = "\n"}
         IN  IF ends = {} THEN <<SubSeq(s, start, Len(s))>>
             ELSE LET end == CHOOSE i \in ends : \A j \in ends : i <= j
                  IN  <<SubSeq(s, start, end)>> \o TokenizeFrom(s, end + 1)

Tokenize(s) == TokenizeFrom(s, 1)

\* Length of a longest common subsequence of a[i..] and b[j..].
RECURSIVE LcsLen(_, _, _, _)
LcsLen(a, b, i, j) ==
    IF i > Len(a) \/ j > Len(b) THEN 0
    ELSE IF a[i] = b[j] THEN 1 + LcsLen(a, b, i + 1, j + 1)
    ELSE LET d == LcsLen(a, b, i + 1, j)
             r == LcsLen(a, b, i, j + 1)
         IN  IF d >= r THEN d ELSE r

\* A shortest edit script from a[i..] to b[j..], one entry per token:
\* "=" kept, "-" removed from a, "+" added from b.
RECURSIVE EditScript(_, _, _, _)
EditScript(a, b, i, j) ==
    IF i > Len(a)
    THEN [k \in 1..(Len(b) - j + 1) |-> [op |-> "+", token |-> b[j + k - 1]]]
    ELSE IF j > Len(b)
    THEN [k \in 1..(Len(a) - i + 1) |-> [op |-> "-", token |-> a[i + k - 1]]]
    ELSE IF a[i] = b[j]
    THEN <<[op |-> "=", token |-> a[i]]>> \o EditScript(a, b, i + 1, j + 1)
    ELSE IF LcsLen(a, b, i + 1, j) >= LcsLen(a, b, i, j + 1)
    THEN <<[op |-> "-", token |-> a[i]]>> \o EditScript(a, b, i + 1, j)
    ELSE <<[op |-> "+", token |-> b[j]]>> \o EditScript(a, b, i, j + 1)

\* Length of the run of entries at the head of script that are all kept
\* (kept = TRUE) or all changed (kept = FALSE).
RECURSIVE RunLen(_, _)
RunLen(script, kept) ==
    IF script = <<>> \/ ((Head(script).op = "=") # kept) THEN 0
    ELSE 1 + RunLen(Tail(script), kept)

TokensOf(script, o) ==
    LET Keep(e) == e.op = o
    IN  [k \in 1..Len(SelectSeq(script, Keep)) |-> SelectSeq(script, Keep)[k].token]

Change(value, added, removed) == [value |-> value, added |-> added, removed |-> removed]

\* The change objects of an edit script: consecutive tokens of one kind are
\* one change whose value is their concatenation; in a run of changed tokens
\* the removed ones are output before the added ones.
RECURSIVE BuildValues(_)
BuildValues(script) ==
    IF script = <<>> THEN <<>>
    ELSE IF Head(script).op = "="
    THEN LET n == RunLen(script, TRUE)
         IN  <<Change(Concat(TokensOf(SubSeq(script, 1, n), "=")), FALSE, FALSE)>>
             \o BuildValues(SubSeq(script, n + 1, Len(script)))
    ELSE LET n   == RunLen(script, FALSE)
             run == SubSeq(script, 1, n)
             rem == TokensOf(run, "-")
             add == TokensOf(run, "+")
         IN  (IF rem = <<>> THEN <<>> ELSE <<Change(Concat(rem), FALSE, TRUE)>>)
             \o (IF add = <<>> THEN <<>> ELSE <<Change(Concat(add), TRUE, FALSE)>>)
             \o BuildValues(SubSeq(script, n + 1, Len(script)))

\* Diff.diffLines(oldStr, newStr) with the default options.
diffLines(oldStr, newStr) ==
    BuildValues(EditScript(Tokenize(oldStr), Tokenize(newStr), 1, 1))

\* Mutant of calculateDiff: the unchanged parts are not filtered out.
calculateDiff_NoFilter(oldContent, newContent) == diffLines(oldContent, newContent)

\* changes.filter(part => part.added || part.removed)
calculateDiff(oldContent, newContent) ==
    LET Changed(part) == part.added \/ part.removed
    IN  SelectSeq(diffLines(oldContent, newContent), Changed)

\* ------------------------------------------------------------------ values

\* Date.prototype.toISOString: the clock value split into its date-time
\* fields (whole seconds and milliseconds).
ToISOString(t) == [sec |-> t \div 1000, ms |-> t % 1000]

\* Mutant of generateHash: only the first line of the text is digested.
generateHash_FirstLine(content) ==
    IF Tokenize(content) = <<>> THEN "" ELSE Head(Tokenize(content))

\* crypto.createHash('md5').update(content).digest('hex')
generateHash(content) ==
    CASE content = ""                  -> "d41d8cd98f00b204e9800998ecf8427e"
      [] content = "Hello\nWorld"      -> "04567fadc5e20fa700ceded26e5cfadf"
      [] content = "Hello\nWorld\nFoo" -> "e51873ea50c10c2ba752ba8e802737c4"

\* The lines of the texts the diff engine is applied to, and a line longer
\* than a stored segment may be.
Lines == {"a", "b", "c"}

RECURSIVE Repeat(_, _)
Repeat(s, n) ==
    IF n = 0 THEN ""
    ELSE IF n % 2 = 1 THEN s \o Repeat(s, n - 1)
    ELSE LET half == Repeat(s, n \div 2) IN half \o half

LongLine == Repeat("x", MaxSegmentChars + 1)

\* Array.prototype.join('\n')
RECURSIVE JoinLines(_)
JoinLines(ls) ==
    IF ls = <<>> THEN ""
    ELSE IF Len(ls) = 1 THEN Head(ls)
    ELSE Head(ls) \o "\n" \o JoinLines(Tail(ls))

\* The texts the diff engine is applied to: up to MaxLines lines, with and
\* without a newline at the end, and two texts with a long last line.
Texts ==
    LET seqs == UNION {[1..n -> Lines] : n \in 0..MaxLines}
    IN  {JoinLines(ls) : ls \in seqs}
        \cup {JoinLines(ls) \o "\n" : ls \in seqs \ {<<>>}}
        \cup {LongLine, "c\nb\n" \o LongLine}

\* The text of the selected region of a fetched page, before trimming.
RawPages == {"", "Hello\nWorld\n", " Hello\nWorld\nFoo"}

\* The text of the <title> element of a fetched page.
PageTitles(url) == {"", " News ", url}

FeedId(k) == "feed-" \o ToString(k)

FeedIds == {FeedId(k) : k \in 1..NumFeeds}

\* An entry of data/feeds.json as the README gives it.
NewFeed(k) ==
    [id          |-> FeedId(k),
     url         |-> "https://example.com/" \o ToString(k),
     title       |-> "Site " \o ToString(k),
     tags        |-> <<"tech">>,
     selector    |-> "body",
     addedAt     |-> ToISOString(0),
     lastChecked |-> None,
     lastUpdated |-> None]

\* The clock before the first run.
StartClock == HistoryCap * RunPeriodMs

\* The same entry after an earlier pass, at StartClock, stored the source's
\* first snapshot.
CrawledFeed(k) == [NewFeed(k) EXCEPT !.lastChecked = Some(ToISOString(StartClock))]

\* The k-th newest ChangeRecord left in history.json by earlier runs.
OldRecord(k) ==
    LET t == (HistoryCap - k) * RunPeriodMs
    IN  [id          |-> "feed-0-" \o ToString(t),
         feedId      |-> "feed-0",
         feedTitle   |-> "Site 0",
         url         |-> "https://example.com/0",
         tags        |-> <<"tech">>,
         detectedAt  |-> ToISOString(t),
         diff        |-> <<[type |-> "added", content |-> "Foo"]>>,
         diffSummary |-> "+1件 / -0件"]

\* The lengths of history.json before the first run: empty, at the cap.
InitHistoryLens == {0, HistoryCap}

\* Mutant of Slice0: slice(-n), the last n elements.
Slice0_FromTail(arr, n) ==
    IF Len(arr) <= n THEN arr ELSE SubSeq(arr, Len(arr) - n + 1, Len(arr))

\* Array.prototype.slice(0, n)
Slice0(arr, n) == IF Len(arr) <= n THEN arr ELSE SubSeq(arr, 1, n)

\* Mutant of Unshift: push, the element goes to the end.
Unshift_Push(arr, e) == Append(arr, e)

\* Array.prototype.unshift
Unshift(arr, e) == <<e>> \o arr

\* ------------------------------------------------------------------- state

VARIABLES
    feedsFile,        \* data/feeds.json
    historyFile,      \* data/history.json
    snapshotFiles,    \* data/snapshots/<id>.txt, None when the file is absent
    feedsData,        \* crawl(): the parsed registry
    historyData,      \* crawl(): the parsed history
    now,              \* crawl(): the run timestamp
    idx,              \* crawl(): position of the for loop in feedsData.feeds
    updatedCount,     \* crawl(): number of changes detected
    pc,               \* "idle", "loop" or "exited"
    error,            \* the error handed to console.error by the top-level catch
    exitCode,         \* the exit status of the process, None while it runs
    clock,            \* Date.now()
    runs,             \* invocations so far
    steps,            \* loop iterations so far, over all invocations
    faults,           \* failed file operations so far, over all invocations
    log,              \* per source of this run: time and text of its fetch, outcome
    atStart,          \* the files and the clock as they were when this run started
    selectedTags,     \* app.js: state.selectedTags
    activeFilters,    \* app.js: the tags of the .tag-filter buttons of class active
    hiddenCards,      \* app.js: the .update-card elements with display 'none'
    clicked,          \* the last click on a tag: the element's kind and its tag
    pendingFeeds,     \* app.js: localStorage 'pendingFeeds'
    engine            \* the diff engine applied to a pair of texts

vars == <<feedsFile, historyFile, snapshotFiles, feedsData, historyData, now,
          idx, updatedCount, pc, error, exitCode,
          clock, runs, steps, faults, log, atStart,
          selectedTags, activeFilters, hiddenCards, clicked, pendingFeeds, engine>>

disk == <<feedsFile, historyFile, snapshotFiles>>

\* The crawler's files, locals and bookkeeping.
crawler == <<disk, feedsData, historyData, now, idx, updatedCount, pc, error,
             exitCode, clock, runs, steps, faults, log, atStart>>

\* The display layer's state in the browser.
filters == <<selectedTags, activeFilters, hiddenCards, clicked>>

display == <<filters, pendingFeeds>>

Started(t) ==
    [feeds |-> feedsFile, snapshots |-> snapshotFiles, clock |-> t]

\* The data files before the first run: either the registry is new and no
\* snapshot is stored, or one earlier pass has stored "Hello\nWorld" as the
\* snapshot of every source.
FilesInit ==
    /\ \E crawled \in BOOLEAN :
          IF crawled
          THEN /\ feedsFile = [feeds |-> [k \in 1..NumFeeds |-> CrawledFeed(k)],
                               tags  |-> <<"tech">>]
               /\ snapshotFiles = [id \in FeedIds |-> Some("Hello\nWorld")]
          ELSE /\ feedsFile = [feeds |-> [k \in 1..NumFeeds |-> NewFeed(k)],
                               tags  |-> <<"tech">>]
               /\ snapshotFiles = [id \in FeedIds |-> None]
    /\ historyFile \in {[updates |-> [k \in 1..n |-> OldRecord(k)]] : n \in InitHistoryLens}

\* No run has started: crawl()'s locals hold nothing yet.
CrawlInit ==
    /\ feedsData = [feeds |-> <<>>, tags |-> <<>>]
    /\ historyData = [updates |-> <<>>]
    /\ now = ToISOString(0)
    /\ idx = 0
    /\ updatedCount = 0
    /\ pc = "idle"
    /\ error = None
    /\ exitCode = None
    /\ clock = StartClock
    /\ log = <<>>
    /\ atStart = Started(StartClock)

\* The invocations, iterations and failed file operations counted so far.
Counted(r, s, f) ==
    /\ runs = r
    /\ steps = s
    /\ faults = f

CrawlerInit ==
    /\ FilesInit
    /\ CrawlInit
    /\ Counted(0, 0, 0)

\* The page as build.js renders it and app.js first holds it: the filter
\* "all" is the active one, nothing is queued in localStorage.
DisplayInit ==
    /\ selectedTags = <<"all">>
    /\ activeFilters = {"all"}
    /\ hiddenCards = {}
    /\ clicked = None
    /\ pendingFeeds = <<>>

\* The diff engine before it is applied to the texts it holds.
Engine(oldContent, newContent) ==
    [oldContent |-> oldContent, newContent |-> newContent,
     diff |-> None, record |-> None]

Init ==
    /\ CrawlerInit
    /\ DisplayInit
    /\ engine = Engine("", "")

\* ------------------------------------------------------------- fetchContent

\* The value fetchContent resolves to when the request and the parse succeed.
fetchContent(url, rawTitle, rawText) ==
    [content |-> Trim(rawText),
     title   |-> IF Trim(rawTitle) # "" THEN Trim(rawTitle) ELSE url]

\* Whether fs.readFile succeeds in loadSnapshot: it throws when the file is
\* absent, and may throw when it is there.
ReadOutcomes(feedId) ==
    IF snapshotFiles[feedId] = None THEN {FALSE} ELSE BOOLEAN

\* The failed file operations of an iteration: a snapshot file that is there
\* could not be read; the snapshot file could not be written.
ReadFailures(feedId, readOk) ==
    IF snapshotFiles[feedId] # None /\ ~readOk THEN 1 ELSE 0

WriteFailures(writeOk) == IF writeOk THEN 0 ELSE 1

\* loadSnapshot: the file's text, null when the read throws.
loadSnapshot(feedId, readOk) ==
    IF readOk THEN snapshotFiles[feedId] ELSE None

\* Mutant of saveSnapshot: the text is appended to the file (fs.appendFile).
saveSnapshot_Appends(feedId, content) ==
    [snapshotFiles EXCEPT ![feedId] = IF @ = None THEN Some(content)
                                      ELSE Some(@[1] \o content)]

\* Mutant of saveSnapshot: an empty text is not written.
saveSnapshot_SkipEmpty(feedId, content) ==
    IF content = "" THEN snapshotFiles ELSE [snapshotFiles EXCEPT ![feedId] = Some(content)]

\* saveSnapshot, when the write succeeds.
saveSnapshot(feedId, content) ==
    [snapshotFiles EXCEPT ![feedId] = Some(content)]

\* -------------------------------------------------------------------- crawl

\* n more file operations fail in this step.
Fail(n) ==
    /\ faults + n <= MaxFaults
    /\ faults' = faults + n

\* crawl().catch(console.error): the rejection is logged and the process
\* ends when nothing is left to run, with the default status.
TopLevelCatch(e) ==
    /\ error' = Some(e)
    /\ pc' = "exited"
    /\ exitCode' = Some(0)

\* Lines 108-115: read both documents, take the run timestamp.
StartRun ==
    /\ pc \in {"idle", "exited"}
    /\ runs < MaxRuns
    /\ runs' = runs + 1
    /\ clock' = (clock \div RunPeriodMs + 1) * RunPeriodMs
    /\ log' = <<>>
    /\ atStart' = Started(clock')
    /\ UNCHANGED <<disk, steps, display, engine>>
    /\ \E readError \in {"none", "feeds.json", "history.json"} :
          IF readError = "none"
          THEN /\ Fail(0)
               /\ feedsData' = feedsFile
               /\ historyData' = historyFile
               /\ now' = ToISOString(clock')
               /\ updatedCount' = 0
               /\ idx' = 1
               /\ pc' = "loop"
               /\ error' = None
               /\ exitCode' = None
          ELSE /\ Fail(1)
               /\ TopLevelCatch("read " \o readError)
               /\ UNCHANGED <<feedsData, historyData, now, updatedCount, idx>>

InLoop == pc = "loop" /\ idx <= Len(feedsData.feeds) /\ steps < MaxSteps

\* What one iteration of the loop did: pageTitle is the text of the fetched
\* page's <title> and fetched the fetchContent result's text, both None when
\* fetchContent returned null; previous is what loadSnapshot returned.
Logged(feed, pageTitle, fetched, previous, outcome) ==
    Append(log, [feedId |-> feed.id, fetchedAt |-> clock, pageTitle |-> pageTitle,
                 fetched |-> fetched, previous |-> previous, outcome |-> outcome])

\* Mutant of Checked: lastChecked is stamped only while it is null.
Checked_StampsOnce(feed, res) ==
    [feed EXCEPT !.lastChecked = IF @ = None THEN Some(now) ELSE @,
                 !.title = IF res.title # "" /\ res.title # feed.url THEN res.title ELSE @]

\* Mutant of Checked: the title is assigned whatever fetchContent returned.
Checked_AlwaysRetitles(feed, res) ==
    [feed EXCEPT !.lastChecked = Some(now), !.title = res.title]

\* Mutant of Checked: the run timestamp is also written to addedAt.
Checked_StampsAddedAt(feed, res) ==
    [feed EXCEPT !.lastChecked = Some(now), !.addedAt = now,
                 !.title = IF res.title # "" /\ res.title # feed.url THEN res.title ELSE @]

\* Mutant of Checked: every successful fetch also stamps lastUpdated.
Checked_StampsUpdated(feed, res) ==
    [feed EXCEPT !.lastChecked = Some(now), !.lastUpdated = Some(now),
                 !.title = IF res.title # "" /\ res.title # feed.url THEN res.title ELSE @]

\* Lines 132-136: the metadata update after a successful fetch.
Checked(feed, res) ==
    [feed EXCEPT !.lastChecked = Some(now),
                 !.title = IF res.title # "" /\ res.title # feed.url THEN res.title ELSE @]

\* Mutant of ChangeRecord: the id is the source's id alone, without the clock
\* value.
ChangeRecord_IdWithoutClock(feed, diff) ==
    LET Added(p) == p.added
        Removed(p) == p.removed
    IN  [id          |-> feed.id,
         feedId      |-> feed.id,
         feedTitle   |-> feed.title,
         url         |-> feed.url,
         tags        |-> feed.tags,
         detectedAt  |-> now,
         diff        |-> [k \in 1..Len(diff) |->
                            [type    |-> IF diff[k].added THEN "added" ELSE "removed",
                             content |-> Substring0(diff[k].value, MaxSegmentChars)]],
         diffSummary |-> "+" \o ToString(Len(SelectSeq(diff, Added))) \o "件 / -"
                             \o ToString(Len(SelectSeq(diff, Removed))) \o "件"]

\* Mutant of ChangeRecord: the added segments are stored first, then the
\* removed ones.
ChangeRecord_GroupedByKind(feed, diff) ==
    LET Added(p) == p.added
        Removed(p) == p.removed
        grouped == SelectSeq(diff, Added) \o SelectSeq(diff, Removed)
    IN  [id          |-> feed.id \o "-" \o ToString(clock),
         feedId      |-> feed.id,
         feedTitle   |-> feed.title,
         url         |-> feed.url,
         tags        |-> feed.tags,
         detectedAt  |-> now,
         diff        |-> [k \in 1..Len(grouped) |->
                            [type    |-> IF grouped[k].added THEN "added" ELSE "removed",
                             content |-> Substring0(grouped[k].value, MaxSegmentChars)]],
         diffSummary |-> "+" \o ToString(Len(SelectSeq(diff, Added))) \o "件 / -"
                             \o ToString(Len(SelectSeq(diff, Removed))) \o "件"]

\* Lines 150-162: the ChangeRecord of a detected change.
ChangeRecord(feed, diff) ==
    LET Added(p) == p.added
        Removed(p) == p.removed
    IN  [id          |-> feed.id \o "-" \o ToString(clock),
         feedId      |-> feed.id,
         feedTitle   |-> feed.title,
         url         |-> feed.url,
         tags        |-> feed.tags,
         detectedAt  |-> now,
         diff        |-> [k \in 1..Len(diff) |->
                            [type    |-> IF diff[k].added THEN "added" ELSE "removed",
                             content |-> Substring0(diff[k].value, MaxSegmentChars)]],
         diffSummary |-> "+" \o ToString(Len(SelectSeq(diff, Added))) \o "件 / -"
                             \o ToString(Len(SelectSeq(diff, Removed))) \o "件"]

\* Lines 172-174, then the next iteration.
DelayAndNext ==
    /\ clock' = clock + DelayMs
    /\ idx' = idx + 1
    /\ UNCHANGED <<pc, error, exitCode>>

\* Mutant of FetchFailed: the fetch error is not caught in fetchContent and
\* rejects crawl().
FetchFailed_Throws ==
    /\ InLoop
    /\ log' = Logged(feedsData.feeds[idx], None, None, None, "skipped")
    /\ steps' = steps + 1
    /\ TopLevelCatch("fetch " \o feedsData.feeds[idx].url)
    /\ UNCHANGED <<disk, feedsData, historyData, now, updatedCount, idx,
                   clock, runs, faults, atStart, display, engine>>

\* Lines 121-126: fetchContent returned null; continue.
FetchFailed ==
    /\ InLoop
    /\ log' = Logged(feedsData.feeds[idx], None, None, None, "skipped")
    /\ idx' = idx + 1
    /\ steps' = steps + 1
    /\ UNCHANGED <<disk, feedsData, historyData, now, updatedCount,
                   pc, error, exitCode, clock, runs, faults, atStart,
                   display, engine>>

\* Lines 139-142: no previous snapshot.
FirstSeen ==
    /\ InLoop
    /\ LET feed == feedsData.feeds[idx] IN
       \E rawText \in RawPages, rawTitle \in PageTitles(feed.url),
          readOk \in ReadOutcomes(feed.id), writeOk \in BOOLEAN :
          LET res  == fetchContent(feed.url, rawTitle, rawText)
              prev == loadSnapshot(feed.id, readOk)
          IN  /\ prev = None
              /\ Fail(ReadFailures(feed.id, readOk) + WriteFailures(writeOk))
              /\ feedsData' = [feedsData EXCEPT !.feeds[idx] = Checked(feed, res)]
              /\ log' = Logged(feed, Some(rawTitle), Some(res.content), prev, "first")
              /\ UNCHANGED <<historyData, updatedCount>>
              /\ IF writeOk
                 THEN /\ snapshotFiles' = saveSnapshot(feed.id, res.content)
                      /\ DelayAndNext
                 ELSE /\ TopLevelCatch("write snapshot " \o feed.id)
                      /\ UNCHANGED <<snapshotFiles, clock, idx>>
    /\ steps' = steps + 1
    /\ UNCHANGED <<feedsFile, historyFile, now, runs, atStart, display, engine>>

\* Lines 143-167: the snapshot's hash differs from the fetched text's.
Changed ==
    /\ InLoop
    /\ LET feed == feedsData.feeds[idx] IN
       \E rawText \in RawPages, rawTitle \in PageTitles(feed.url),
          readOk \in ReadOutcomes(feed.id), writeOk \in BOOLEAN :
          LET res     == fetchContent(feed.url, rawTitle, rawText)
              prev    == loadSnapshot(feed.id, readOk)
              checked == Checked(feed, res)
          IN  /\ prev # None
              /\ generateHash(prev[1]) # generateHash(res.content)
              /\ Fail(WriteFailures(writeOk))
              /\ log' = Logged(feed, Some(rawTitle), Some(res.content), prev, "changed")
              /\ historyData' = [historyData EXCEPT !.updates =
                    Unshift(@, ChangeRecord(checked, calculateDiff(prev[1], res.content)))]
              /\ IF writeOk
                 THEN /\ snapshotFiles' = saveSnapshot(feed.id, res.content)
                      /\ feedsData' = [feedsData EXCEPT !.feeds[idx] =
                                          [checked EXCEPT !.lastUpdated = Some(now)]]
                      /\ updatedCount' = updatedCount + 1
                      /\ DelayAndNext
                 ELSE /\ feedsData' = [feedsData EXCEPT !.feeds[idx] = checked]
                      /\ TopLevelCatch("write snapshot " \o feed.id)
                      /\ UNCHANGED <<snapshotFiles, updatedCount, clock, idx>>
    /\ steps' = steps + 1
    /\ UNCHANGED <<feedsFile, historyFile, now, runs, atStart, display, engine>>

\* Lines 168-170: the hashes are equal.
Unchanged ==
    /\ InLoop
    /\ LET feed == feedsData.feeds[idx] IN
       \E rawText \in RawPages, rawTitle \in PageTitles(feed.url) :
          LET res  == fetchContent(feed.url, rawTitle, rawText)
              prev == loadSnapshot(feed.id, TRUE)
          IN  /\ prev # None
              /\ generateHash(prev[1]) = generateHash(res.content)
              /\ feedsData' = [feedsData EXCEPT !.feeds[idx] = Checked(feed, res)]
              /\ log' = Logged(feed, Some(rawTitle), Some(res.content), prev, "unchanged")
    /\ DelayAndNext
    /\ steps' = steps + 1
    /\ UNCHANGED <<disk, historyData, now, updatedCount, runs, faults, atStart,
                   display, engine>>

\* Lines 176-183: truncate the history, write both documents.
Persist ==
    /\ pc = "loop"
    /\ idx > Len(feedsData.feeds)
    /\ historyData' = [historyData EXCEPT !.updates = Slice0(@, HistoryCap)]
    /\ \E writeError \in {"none", "feeds.json", "history.json"} :
          /\ feedsFile' = IF writeError = "feeds.json" THEN feedsFile ELSE feedsData
          /\ historyFile' = IF writeError = "none" THEN historyData' ELSE historyFile
          /\ Fail(IF writeError = "none" THEN 0 ELSE 1)
          /\ IF writeError = "none"
             THEN /\ pc' = "exited"
                  /\ exitCode' = Some(0)
                  /\ UNCHANGED error
             ELSE TopLevelCatch("write " \o writeError)
    /\ UNCHANGED <<snapshotFiles, feedsData, now, idx, updatedCount,
                   clock, runs, steps, log, atStart, display, engine>>

\* ------------------------------------------------------------- diff engine

\* The registry is new and the history empty.
FreshFiles ==
    /\ historyFile.updates = <<>>
    /\ \A id \in FeedIds : snapshotFiles[id] = None

DiffInit ==
    /\ CrawlerInit
    /\ FreshFiles
    /\ DisplayInit
    /\ engine \in {Engine(a, b) : a \in Texts, b \in Texts}

\* Line 147: const diff = calculateDiff(previousContent, result.content)
Compare ==
    /\ engine.diff = None
    /\ engine' = [engine EXCEPT
                    !.diff = Some(calculateDiff(engine.oldContent, engine.newContent))]
    /\ UNCHANGED <<crawler, display>>

\* Lines 150-162 on that diff, for texts that differ.
Record ==
    /\ engine.diff # None
    /\ engine.record = None
    /\ engine.oldContent # engine.newContent
    /\ engine' = [engine EXCEPT
                    !.record = Some(ChangeRecord(feedsFile.feeds[1], engine.diff[1]))]
    /\ UNCHANGED <<crawler, display>>

DiffNext ==
    \/ Compare
    \/ Record

DiffSpec == DiffInit /\ [][DiffNext]_vars

Next ==
    \/ StartRun
    \/ FetchFailed
    \/ FirstSeen
    \/ Changed
    \/ Unchanged
    \/ Persist

Spec == Init /\ [][Next]_vars

\* ------------------------------------------------------------ display layer

\* What the add-feed form can hold when it is submitted: the url alone, or
\* every field.
FormEntries ==
    {[url |-> "https://example.com/new", title |-> "", selector |-> "", tags |-> <<>>],
     [url |-> "https://example.com/new", title |-> "New site", selector |-> "article",
      tags |-> <<"tech">>]}

\* app.js lines 234-243: the new feed object.
NewFeedObject(form) ==
    [id          |-> "feed-" \o ToString(clock),
     url         |-> form.url,
     title       |-> IF form.title # "" THEN form.title ELSE form.url,
     selector    |-> IF form.selector # "" THEN form.selector ELSE "body",
     tags        |-> form.tags,
     addedAt     |-> ToISOString(clock),
     lastChecked |-> None,
     lastUpdated |-> None]

\* Mutant of handleAddFeed: the new feed is also written to the registry.
handleAddFeed_WritesRegistry(form) ==
    /\ Len(pendingFeeds) < MaxPending
    /\ pendingFeeds' = Append(pendingFeeds, NewFeedObject(form))
    /\ feedsFile' = [feedsFile EXCEPT !.feeds = Append(@, NewFeedObject(form))]
    /\ UNCHANGED <<historyFile, snapshotFiles, feedsData, historyData, now, idx,
                   updatedCount, pc, error, exitCode, clock, runs, steps, faults,
                   log, atStart, filters, engine>>

\* app.js lines 224-261: the submit handler of the add-feed form.
handleAddFeed(form) ==
    /\ Len(pendingFeeds) < MaxPending
    /\ pendingFeeds' = Append(pendingFeeds, NewFeedObject(form))
    /\ UNCHANGED <<crawler, filters, engine>>

\* The tags of the registry's tag list: build.js renders one .tag-filter
\* button for each, after the button "all".
FilterTags == {"tech", "news", "blog", "tools"}

FilterButtons == {"all"} \cup FilterTags

\* The tags of the update cards of the page, card by card; a source may carry
\* a tag the registry's tag list does not have.
CardTagLists == <<<<"tech">>, <<"news", "blog">>, <<"tools", "misc">>>>

\* The tags shown on the cards: a click on one calls selectSingleTag.
CardTags == UNION {{CardTagLists[c][k] : k \in 1..Len(CardTagLists[c])} :
                      c \in 1..Len(CardTagLists)}

\* Array.prototype.filter(t => t !== tag)
Without(tags, tag) ==
    LET Other(t) == t # tag
    IN  SelectSeq(tags, Other)

\* Array.prototype.includes
Includes(tags, tag) == \E k \in 1..Len(tags) : tags[k] = tag

\* app.js lines 188-201: the cards filterCards hides for a selection.
filterCards(selected) ==
    IF Includes(selected, "all") THEN {}
    ELSE {c \in 1..Len(CardTagLists) :
             \A k \in 1..Len(CardTagLists[c]) : ~Includes(selected, CardTagLists[c][k])}

\* Mutant of handleTagFilter: 'all' is not taken out of the selection when
\* a tag is selected.
handleTagFilter_KeepsAll(btn) ==
    /\ clicked' = Some([on |-> "filter", tag |-> btn])
    /\ IF btn = "all"
       THEN /\ selectedTags' = <<"all">>
            /\ activeFilters' = {"all"}
       ELSE LET wasActive == btn \in activeFilters
                selection == IF wasActive THEN Without(selectedTags, btn)
                             ELSE Append(selectedTags, btn)
                active    == IF wasActive THEN (activeFilters \ {"all"}) \ {btn}
                             ELSE (activeFilters \ {"all"}) \cup {btn}
            IN  IF selection = <<>>
                THEN /\ selectedTags' = <<"all">>
                     /\ activeFilters' = active \cup {"all"}
                ELSE /\ selectedTags' = selection
                     /\ activeFilters' = active
    /\ hiddenCards' = filterCards(selectedTags')
    /\ UNCHANGED <<crawler, pendingFeeds, engine>>

\* app.js lines 137-169: a click on the .tag-filter button of tag btn.
handleTagFilter(btn) ==
    /\ clicked' = Some([on |-> "filter", tag |-> btn])
    /\ IF btn = "all"
       THEN /\ selectedTags' = <<"all">>
            /\ activeFilters' = {"all"}
       ELSE LET wasActive == btn \in activeFilters
                withoutAll == Without(selectedTags, "all")
                selection == IF wasActive THEN Without(withoutAll, btn)
                             ELSE Append(withoutAll, btn)
                active    == IF wasActive THEN (activeFilters \ {"all"}) \ {btn}
                             ELSE (activeFilters \ {"all"}) \cup {btn}
            IN  IF selection = <<>>
                THEN /\ selectedTags' = <<"all">>
                     /\ activeFilters' = active \cup {"all"}
                ELSE /\ selectedTags' = selection
                     /\ activeFilters' = active
    /\ hiddenCards' = filterCards(selectedTags')
    /\ UNCHANGED <<crawler, pendingFeeds, engine>>

\* app.js lines 175-183: a click on the tag of a card.
selectSingleTag(tag) ==
    /\ clicked' = Some([on |-> "card", tag |-> tag])
    /\ selectedTags' = <<tag>>
    /\ activeFilters' = {b \in FilterButtons : b = tag}
    /\ hiddenCards' = filterCards(selectedTags')
    /\ UNCHANGED <<crawler, pendingFeeds, engine>>

\* The page is open in a browser; no crawler run takes place meanwhile.
TagInit ==
    /\ CrawlerInit
    /\ FreshFiles
    /\ DisplayInit
    /\ engine = Engine("", "")

TagNext ==
    \/ \E btn \in FilterButtons : handleTagFilter(btn)
    \/ \E tag \in CardTags : selectSingleTag(tag)

TagSpec == TagInit /\ [][TagNext]_vars

\* The display layer takes "add source" requests before, during and after
\* one scheduled run of the crawler in which no file operation fails; the
\* history is empty.
AddFeedInit ==
    /\ FilesInit
    /\ historyFile.updates = <<>>
    /\ CrawlInit
    /\ Counted(MaxRuns - 1, 0, MaxFaults)
    /\ DisplayInit
    /\ engine = Engine("", "")

AddFeedNext ==
    \/ Next
    \/ \E form \in FormEntries : handleAddFeed(form)

AddFeedSpec == AddFeedInit /\ [][AddFeedNext]_vars

\* ------------------------------------------------------------------ claims

\* One iteration of the for loop has just been taken: the step added an
\* entry to the log.
Iterated == Len(log') = Len(log) + 1

\* The log entry of the iteration just taken (in a step where Iterated holds).
Entry == log'[Len(log')]

\* The stored snapshot was read back as it is on disk (loadSnapshot did not
\* swallow a read error) in the iteration just taken.
ReadBack == Entry.previous = snapshotFiles[Entry.feedId]

\* The iteration just taken ran to its end: no snapshot write threw.
Finished == pc' = "loop"

LastUpdatedOf(doc, k) == doc.feeds[k].lastUpdated

LastCheckedOf(doc, k) == doc.feeds[k].lastChecked

\* C1: when a source's fetch succeeds and its stored snapshot exists, is read
\* back and differs from the extracted text, and the snapshot write succeeds,
\* that iteration puts exactly one ChangeRecord of that source (detected at
\* the run timestamp) in front of the history, overwrites the snapshot with
\* the extracted text and sets the source's lastUpdated to the run
\* timestamp, which is the one taken when the run started.
C1_ChangedRecordsOnce ==
    [][(/\ Iterated
        /\ Entry.fetched # None
        /\ snapshotFiles[Entry.feedId] # None
        /\ ReadBack
        /\ snapshotFiles[Entry.feedId] # Entry.fetched
        /\ Finished)
       => /\ Len(historyData'.updates) = Len(historyData.updates) + 1
          /\ Tail(historyData'.updates) = historyData.updates
          /\ Head(historyData'.updates).feedId = Entry.feedId
          /\ Head(historyData'.updates).detectedAt = now
          /\ snapshotFiles' = [snapshotFiles EXCEPT ![Entry.feedId] = Entry.fetched]
          /\ LastUpdatedOf(feedsData', idx) = Some(now)
          /\ now' = now
          /\ now = ToISOString(atStart.clock)]_vars

\* C1 witness: a run has just recorded a change of a source whose snapshot
\* held another text, and the snapshot now holds the fetched text.
C1_Witness ==
    /\ pc = "loop"
    /\ Len(log) > 0
    /\ log[Len(log)].outcome = "changed"
    /\ log[Len(log)].previous = Some("Hello\nWorld")
    /\ log[Len(log)].fetched = Some("Hello\nWorld\nFoo")
    /\ snapshotFiles[log[Len(log)].feedId] = Some("Hello\nWorld\nFoo")
    /\ Len(historyData.updates) = Len(historyFile.updates) + 1

\* C2: a successful fetch of a source that has no stored snapshot adds no
\* ChangeRecord and leaves the source's lastUpdated as it was, and it stores
\* the extracted text, the empty text too, as the source's snapshot unless
\* the snapshot write throws.
C2_FirstSeenStoresOnly ==
    [][(/\ Iterated
        /\ Entry.fetched # None
        /\ snapshotFiles[Entry.feedId] = None)
       => /\ historyData' = historyData
          /\ LastUpdatedOf(feedsData', idx) = LastUpdatedOf(feedsData, idx)
          /\ updatedCount' = updatedCount
          /\ Finished =>
                snapshotFiles' = [snapshotFiles EXCEPT ![Entry.feedId] = Entry.fetched]]_vars

\* C2 witness: the first fetch of a source extracted the empty text and the
\* empty snapshot is stored, with nothing added to the history.
C2_Witness ==
    /\ pc = "loop"
    /\ Len(log) > 0
    /\ log[Len(log)].outcome = "first"
    /\ atStart.snapshots[log[Len(log)].feedId] = None
    /\ log[Len(log)].fetched = Some("")
    /\ snapshotFiles[log[Len(log)].feedId] = Some("")
    /\ historyData = historyFile

\* C3: when a source's fetch succeeds and the extracted text equals the
\* stored snapshot, no ChangeRecord is added, the snapshot and the source's
\* lastUpdated stay as they were and its lastChecked is the run timestamp.
C3_UnchangedOnlyChecks ==
    [][(/\ Iterated
        /\ Entry.fetched # None
        /\ snapshotFiles[Entry.feedId] = Entry.fetched)
       => /\ historyData' = historyData
          /\ snapshotFiles' = snapshotFiles
          /\ LastUpdatedOf(feedsData', idx) = LastUpdatedOf(feedsData, idx)
          /\ LastCheckedOf(feedsData', idx) = Some(now)
          /\ now = ToISOString(atStart.clock)]_vars

\* C3 witness: a source whose snapshot an earlier run stored was found
\* unchanged in this one: its lastChecked went from the earlier run's
\* timestamp to this run's, its lastUpdated and its snapshot are the ones
\* the run started with and the history has not grown.
C3_Witness ==
    /\ pc = "loop"
    /\ Len(log) > 0
    /\ log[Len(log)].outcome = "unchanged"
    /\ LastCheckedOf(atStart.feeds, Len(log)) # None
    /\ LastCheckedOf(atStart.feeds, Len(log)) # Some(now)
    /\ LastCheckedOf(feedsData, Len(log)) = Some(now)
    /\ LastUpdatedOf(feedsData, Len(log)) = LastUpdatedOf(atStart.feeds, Len(log))
    /\ snapshotFiles[log[Len(log)].feedId] = atStart.snapshots[log[Len(log)].feedId]
    /\ historyData = historyFile

\* C4 as stated: every addition of a ChangeRecord leaves the history within
\* the cap.
C4_Original_AdditionWithinCap == Len(historyData.updates) <= HistoryCap

\* C4 amended: an addition puts the new ChangeRecord in front of the history
\* in memory without truncating it; history.json never holds more than the
\* cap, because what a run that ends without error has written is the
\* first HistoryCap records of the history in memory: the newest record is
\* kept at the front and the records dropped are the oldest, at the tail.
C4_PersistedHistoryCapped ==
    [][/\ Len(historyFile'.updates) <= HistoryCap
       /\ (Iterated /\ Entry.outcome = "changed") =>
             /\ Tail(historyData'.updates) = historyData.updates
             /\ Head(historyData'.updates).feedId = Entry.feedId
       /\ (pc = "loop" /\ pc' = "exited" /\ error' = None) =>
             /\ Len(historyFile'.updates) =
                   IF Len(historyData.updates) <= HistoryCap
                   THEN Len(historyData.updates) ELSE HistoryCap
             /\ \A k \in 1..Len(historyFile'.updates) :
                   historyFile'.updates[k] = historyData.updates[k]]_vars

\* C4 witness: history.json was at the cap when the run started; the run
\* detected one change and wrote a history of the same length, with the new
\* record first and the oldest earlier record gone.
C4_Witness ==
    /\ pc = "exited"
    /\ error = None
    /\ runs = 1
    /\ updatedCount = 1
    /\ Len(historyFile.updates) = HistoryCap
    /\ historyFile.updates[1].detectedAt = now
    /\ historyFile.updates[HistoryCap] = OldRecord(HistoryCap - 1)

\* C5: a failed fetch leaves the source's snapshot, the registry and the
\* history in memory untouched and the loop goes on to the next source; a
\* run that ends without a storage error has processed every source once,
\* in registry order, has written the registry and the history, and holds
\* for each source whose fetch failed the registry entry and the snapshot
\* the run started with and no ChangeRecord of this run.
C5_FetchFailureSkipsSource ==
    [][/\ (Iterated /\ Entry.fetched = None) =>
             /\ snapshotFiles' = snapshotFiles
             /\ feedsData' = feedsData
             /\ historyData' = historyData
             /\ pc' = "loop"
             /\ idx' = idx + 1
             /\ error' = error
       /\ (pc' = "exited" /\ error' = None) =>
             /\ Len(log') = Len(feedsData'.feeds)
             /\ feedsFile' = feedsData'
             /\ historyFile' = historyData'
             /\ \A k \in 1..Len(log') :
                   /\ log'[k].feedId = feedsData'.feeds[k].id
                   /\ log'[k].fetched = None =>
                         /\ feedsFile'.feeds[k] = atStart'.feeds.feeds[k]
                         /\ snapshotFiles'[log'[k].feedId] = atStart'.snapshots[log'[k].feedId]
                         /\ \A r \in 1..Len(historyFile'.updates) :
                               historyFile'.updates[r].feedId = log'[k].feedId =>
                                  historyFile'.updates[r].detectedAt # now']_vars

\* C5 witness: a run in which one source's fetch failed has ended without
\* error, and another source's change was recorded in it.
C5_Witness ==
    /\ pc = "exited"
    /\ error = None
    /\ feedsFile = feedsData
    /\ \E k, j \in 1..Len(log) :
          /\ log[k].outcome = "skipped"
          /\ log[j].outcome = "changed"
          /\ historyFile.updates[1].feedId = log[j].feedId

\* The errors of reading or writing feeds.json and history.json.
RunLevelErrors ==
    {Some(op \o " " \o file) : op \in {"read", "write"}, file \in {"feeds.json", "history.json"}}

\* C6 as stated: a snapshot read or write failure never ends a run early:
\* unless a registry or history file could not be read or written, a run
\* that has ended has processed every source and written both documents.
C6_SnapshotFailureIsPerSource ==
    (pc = "exited" /\ error \notin RunLevelErrors) =>
        /\ Len(log) = Len(feedsData.feeds)
        /\ feedsFile = feedsData
        /\ historyFile = historyData

\* C7 as stated: a run that aborts before the final write leaves the
\* registry, the history and the snapshots as they were when it started.
C7_AbortLosesAllProgress ==
    (pc = "exited" /\ error # None /\ error # Some("write history.json")) =>
        /\ feedsFile = atStart.feeds
        /\ snapshotFiles = atStart.snapshots

\* C8 as stated: a run aborted by a registry or history storage error ends
\* the process with a non-zero exit status.
C8_StorageErrorExitsNonZero ==
    (pc = "exited" /\ error \in RunLevelErrors) => exitCode # Some(0)

\* C9 as stated: the sources are fetched once each in registry order, and
\* two consecutive fetches are at least the delay apart.
C9_DelayAfterEverySource ==
    \A k \in 1..Len(log) :
        /\ log[k].feedId = feedsData.feeds[k].id
        /\ k > 1 => log[k].fetchedAt >= log[k - 1].fetchedAt + DelayMs

\* C10 as stated: from the snapshot "Hello\nWorld" to the extracted text
\* "Hello\nWorld\nFoo" the recorded diff is the one added segment "Foo" and
\* the summary is "+1件 / -0件".
C10_AppendedLineIsOneAddition ==
    [][(/\ Iterated
        /\ Entry.previous = Some("Hello\nWorld")
        /\ Entry.fetched = Some("Hello\nWorld\nFoo"))
       => /\ Head(historyData'.updates).diff = <<[type |-> "added", content |-> "Foo"]>>
          /\ Head(historyData'.updates).diffSummary = "+1件 / -0件"]_vars

\* C11: after every iteration that fetched a source's text and ran to its
\* end, whatever its outcome (first-seen, unchanged or changed), the
\* snapshot stored under that source's identifier is the text that fetch
\* extracted, and the snapshots of the other sources are as they were.
C11_SnapshotIsLastExtractedText ==
    [][(Iterated /\ Entry.fetched # None /\ Finished)
       => /\ Entry.outcome \in {"first", "unchanged", "changed"}
          /\ snapshotFiles'[Entry.feedId] = Entry.fetched
          /\ \A id \in FeedIds \ {Entry.feedId} :
                snapshotFiles'[id] = snapshotFiles[id]]_vars

\* C11 witness: in one run a source was found changed and the next one
\* unchanged (or first-seen), and each one's snapshot is the text its fetch
\* extracted; the changed one's snapshot held another text before.
C11_Witness ==
    /\ pc = "loop"
    /\ Len(log) = 2
    /\ log[1].outcome = "changed"
    /\ log[2].outcome \in {"unchanged", "first"}
    /\ log[1].previous # log[1].fetched
    /\ snapshotFiles[log[1].feedId] = log[1].fetched
    /\ snapshotFiles[log[2].feedId] = log[2].fetched

\* The identifiers of the ChangeRecords of a history.
RecordIds(updates) == {updates[k].id : k \in 1..Len(updates)}

\* C12: the identifiers of the ChangeRecords are pairwise distinct: the
\* record a detected change puts in front of the history has an identifier
\* none of the records already there has, and the history a run writes to
\* history.json holds no identifier twice.
C12_RecordIdsDistinct ==
    [][/\ (Iterated /\ Entry.outcome = "changed") =>
             Head(historyData'.updates).id \notin RecordIds(historyData.updates)
       /\ (pc = "loop" /\ pc' = "exited") =>
             Cardinality(RecordIds(historyFile'.updates)) = Len(historyFile'.updates)]_vars

\* C12 witness: the history holds two ChangeRecords of the same source, made
\* in two runs, and their identifiers differ.
C12_Witness ==
    /\ runs = 2
    /\ Len(historyData.updates) >= 2
    /\ historyData.updates[1].feedId \in FeedIds
    /\ historyData.updates[1].feedId = historyData.updates[2].feedId
    /\ historyData.updates[1].detectedAt # historyData.updates[2].detectedAt
    /\ historyData.updates[1].id # historyData.updates[2].id

\* Timestamp a is not after timestamp b.
NotAfter(a, b) == a.sec < b.sec \/ (a.sec = b.sec /\ a.ms <= b.ms)

\* Every record's detection timestamp is not after that of the record in
\* front of it (hence of any record nearer the front).
NewestFirst(updates) ==
    \A k \in 1..(Len(updates) - 1) :
        NotAfter(updates[k + 1].detectedAt, updates[k].detectedAt)

\* C13: a detected change puts its ChangeRecord, stamped with the run
\* timestamp, at the front of the history, in front of records that are
\* not newer; and the history a run writes to history.json is ordered
\* newest-first.
C13_HistoryNewestFirst ==
    [][/\ (Iterated /\ Entry.outcome = "changed") =>
             /\ Head(historyData'.updates).detectedAt = now
             /\ Tail(historyData'.updates) = historyData.updates
             /\ historyData.updates # <<>> =>
                   NotAfter(Head(historyData.updates).detectedAt, now)
       /\ (pc = "loop" /\ pc' = "exited") => NewestFirst(historyFile'.updates)]_vars

\* C13 witness: a run has written a history whose first record is one it
\* made, stamped with the run timestamp, in front of a strictly older one.
C13_Witness ==
    /\ pc = "exited"
    /\ error = None
    /\ Len(historyFile.updates) >= 2
    /\ historyFile.updates[1].feedId \in FeedIds
    /\ historyFile.updates[1].detectedAt = now
    /\ historyFile.updates[2].detectedAt # now
    /\ NotAfter(historyFile.updates[2].detectedAt, now)

\* The registry doc has the sources of the registry ref, in the same order,
\* with the same id, url, selector, tags and creation timestamp, the same
\* fields and the same tag list.
SameSources(doc, ref) ==
    /\ DOMAIN doc = DOMAIN ref
    /\ doc.tags = ref.tags
    /\ Len(doc.feeds) = Len(ref.feeds)
    /\ \A k \in 1..Len(doc.feeds) :
          /\ DOMAIN doc.feeds[k] = DOMAIN ref.feeds[k]
          /\ doc.feeds[k].id = ref.feeds[k].id
          /\ doc.feeds[k].url = ref.feeds[k].url
          /\ doc.feeds[k].selector = ref.feeds[k].selector
          /\ doc.feeds[k].tags = ref.feeds[k].tags
          /\ doc.feeds[k].addedAt = ref.feeds[k].addedAt

\* C14: feeds.json, and during a run the registry in memory, has the sources
\* the run read at its start, in the same order, differing from them at
\* most in title, lastChecked and lastUpdated.
C14_RegistryFrame ==
    /\ SameSources(feedsFile, atStart.feeds)
    /\ pc = "loop" => SameSources(feedsData, atStart.feeds)
    /\ (pc = "exited" /\ error = None) => feedsFile = feedsData

\* C14 witness: a run has written a registry that differs from the one it
\* read: a source has a new title, a lastChecked and a lastUpdated.
C14_Witness ==
    /\ pc = "exited"
    /\ error = None
    /\ feedsFile # atStart.feeds
    /\ \E k \in 1..Len(feedsFile.feeds) :
          /\ feedsFile.feeds[k].title # atStart.feeds.feeds[k].title
          /\ feedsFile.feeds[k].lastChecked = Some(now)
          /\ feedsFile.feeds[k].lastUpdated = Some(now)

\* The parts of a line diff that are added or removed, in the diff's order.
ChangedParts(parts) ==
    LET IsChange(p) == p.added \/ p.removed
    IN  SelectSeq(parts, IsChange)

\* The number of parts of kind "added" or "removed" in a line diff.
CountOf(parts, kind) ==
    Cardinality({k \in 1..Len(parts) :
                    IF kind = "added" THEN parts[k].added ELSE parts[k].removed})

\* C15: the diff of a ChangeRecord has one segment for each added or removed
\* part of the line diff of the two texts and none for an unchanged part,
\* in the order of the line diff; a segment has the kind of its part and
\* the part's text, cut to its first MaxSegmentChars characters when it is
\* longer; the summary gives the numbers of added and of removed parts of
\* the line diff.
C15_RecordedDiffInOrder ==
    engine.record # None =>
        LET parts == ChangedParts(diffLines(engine.oldContent, engine.newContent))
            rec   == engine.record[1]
        IN  /\ Len(rec.diff) = Len(parts)
            /\ \A k \in 1..Len(parts) :
                  /\ rec.diff[k].type = (IF parts[k].added THEN "added" ELSE "removed")
                  /\ parts[k].added # parts[k].removed
                  /\ Len(rec.diff[k].content) <= MaxSegmentChars
                  /\ rec.diff[k].content =
                        (IF Len(parts[k].value) <= MaxSegmentChars THEN parts[k].value
                         ELSE SubSeq(parts[k].value, 1, MaxSegmentChars))
            /\ rec.diffSummary =
                  "+" \o ToString(CountOf(parts, "added")) \o "件 / -"
                      \o ToString(CountOf(parts, "removed")) \o "件"

\* C15 witness: a record whose segments alternate (removed, added, removed,
\* added) with an unchanged line between the two pairs, and whose last
\* segment is the first MaxSegmentChars characters of a longer added part.
C15_Witness ==
    /\ engine.record # None
    /\ engine.oldContent = "a\nb\nc"
    /\ engine.newContent = "c\nb\n" \o LongLine
    /\ [k \in 1..4 |-> engine.record[1].diff[k].type]
          = <<"removed", "added", "removed", "added">>
    /\ engine.record[1].diff[1].content = "a\n"
    /\ engine.record[1].diff[2].content = "c\n"
    /\ engine.record[1].diff[3].content = "c"
    /\ Len(engine.record[1].diff[4].content) = MaxSegmentChars
    /\ engine.record[1].diffSummary = "+2件 / -2件"

\* C16: an iteration whose fetch succeeded sets the source's title to the
\* page's title, trimmed, when that is not empty and not the source's url,
\* and leaves the title as it was otherwise (no title, a blank title, the
\* url as title).
C16_TitleOnlyWhenInformative ==
    [][(Iterated /\ Entry.fetched # None) =>
          LET feed  == feedsData.feeds[idx]
              title == Trim(Entry.pageTitle[1])
          IN  feedsData'.feeds[idx].title =
                 (IF title # "" /\ title # feed.url THEN title ELSE feed.title)]_vars

\* C16 witness: in one run a page without title left the first source's
\* title as the registry had it, and the page title " News " became the
\* second source's title "News".
C16_Witness ==
    /\ pc = "loop"
    /\ Len(log) = 2
    /\ log[1].pageTitle = Some("")
    /\ feedsData.feeds[1].title = atStart.feeds.feeds[1].title
    /\ log[2].pageTitle = Some(" News ")
    /\ atStart.feeds.feeds[2].title # "News"
    /\ feedsData.feeds[2].title = "News"

\* C17: the diff of a text against itself is empty.
C17_SelfDiffEmpty ==
    (engine.diff # None /\ engine.oldContent = engine.newContent) =>
        engine.diff = Some(<<>>)

\* C17 witness: a text of several lines was diffed against itself and the
\* result has no segment.
C17_Witness ==
    /\ engine.oldContent = engine.newContent
    /\ Len(Tokenize(engine.oldContent)) = MaxLines
    /\ engine.diff = Some(<<>>)

\* The identifiers of the sources of a sequence of feed objects.
SourceIds(feeds) == {feeds[k].id : k \in 1..Len(feeds)}

\* C18: a submitted "add source" request appends one feed object, never
\* checked, to the pending queue and writes neither the registry nor any
\* other data file; the crawler leaves the queue alone, and no source of
\* the queue is in feeds.json, in the registry a run has read, or among
\* the sources a run processes.
C18_AddFeedOnlyQueues ==
    [][/\ pendingFeeds' # pendingFeeds =>
             /\ Len(pendingFeeds') = Len(pendingFeeds) + 1
             /\ SubSeq(pendingFeeds', 1, Len(pendingFeeds)) = pendingFeeds
             /\ pendingFeeds'[Len(pendingFeeds')].lastChecked = None
             /\ disk' = disk
             /\ feedsData' = feedsData
             /\ log' = log
       /\ crawler' # crawler => pendingFeeds' = pendingFeeds
       /\ SourceIds(feedsFile'.feeds) \cap SourceIds(pendingFeeds') = {}
       /\ SourceIds(feedsData'.feeds) \cap SourceIds(pendingFeeds') = {}
       /\ {log'[k].feedId : k \in 1..Len(log')} \cap SourceIds(pendingFeeds') = {}]_vars

\* C18 witness: a request was submitted before a run started; the run went
\* over every source of the registry and wrote it, and the requested source
\* is still in the queue only.
C18_Witness ==
    /\ pc = "exited"
    /\ error = None
    /\ Len(pendingFeeds) = 1
    /\ pendingFeeds[1].title = pendingFeeds[1].url
    /\ NotAfter(pendingFeeds[1].addedAt, ToISOString(StartClock))
    /\ Len(log) = Len(feedsFile.feeds)
    /\ \A k \in 1..Len(log) : log[k].fetched # None
    /\ feedsFile = feedsData
    /\ pendingFeeds[1].id \notin SourceIds(feedsFile.feeds)

\* Every source of the registry doc that has a lastUpdated has a lastChecked
\* that is not earlier, and a stored snapshot.
TimestampsConsistent(doc) ==
    \A k \in 1..Len(doc.feeds) :
        doc.feeds[k].lastUpdated # None =>
            /\ doc.feeds[k].lastChecked # None
            /\ NotAfter(doc.feeds[k].lastUpdated[1], doc.feeds[k].lastChecked[1])
            /\ snapshotFiles[doc.feeds[k].id] # None

\* C19: in feeds.json and in the registry a run holds in memory, a source
\* whose lastUpdated is not null has a lastChecked that is not null and not
\* earlier than it, and has a stored snapshot.
C19_UpdatedImpliesChecked ==
    /\ TimestampsConsistent(feedsFile)
    /\ TimestampsConsistent(feedsData)

\* C19 witness: a source whose change an earlier run recorded has been
\* checked again in a later run: its lastUpdated is the earlier run's
\* timestamp, its lastChecked this run's, and its snapshot is stored.
C19_Witness ==
    /\ pc = "loop"
    /\ runs = 2
    /\ \E k \in 1..Len(feedsData.feeds) :
          /\ feedsData.feeds[k].lastUpdated # None
          /\ feedsData.feeds[k].lastUpdated = feedsFile.feeds[k].lastUpdated
          /\ feedsData.feeds[k].lastChecked = Some(now)
          /\ feedsData.feeds[k].lastUpdated # Some(now)
          /\ snapshotFiles[feedsData.feeds[k].id] # None

\* C20: after any clicks on tag filters and on card tags the selection is
\* not empty, holds no tag twice and holds 'all' only alone; and a click on
\* the filter of the only selected tag makes the selection ['all'].
C20_SelectionWellFormed ==
    [][/\ selectedTags' # <<>>
       /\ \A i, j \in 1..Len(selectedTags') :
             selectedTags'[i] = selectedTags'[j] => i = j
       /\ Includes(selectedTags', "all") => selectedTags' = <<"all">>
       /\ \A t \in FilterTags :
             (/\ selectedTags = <<t>>
              /\ t \in activeFilters
              /\ clicked' = Some([on |-> "filter", tag |-> t]))
             => /\ selectedTags' = <<"all">>
                /\ activeFilters' = {"all"}]_vars

\* C20 witness: the filter of the only selected tag was clicked and the
\* selection is ['all'] again, with "all" the one active filter and every
\* card shown.
C20_Witness ==
    /\ clicked = Some([on |-> "filter", tag |-> "tech"])
    /\ selectedTags = <<"all">>
    /\ activeFilters = {"all"}
    /\ hiddenCards = {}

====
